---- MODULE Spec2Model ----
(***************************************************************************)
(* A model of tools/plot.py: the data thread (read_new_data_from_stdin),   *)
(* the render callback (animate) run by the GUI timer on the main thread,  *)
(* the close handler (handle_close), and the process that writes lines to  *)
(* standard input.  Channels are numbered 0..max_sources-1 as in the       *)
(* source; TLA+ sequences are 1-based, so channel i lives at index i+1.    *)
(***************************************************************************)
EXTENDS Integers, Sequences, FiniteSets, TLC

\* ---------------------------------------------------------------- sizes
\* The module-level sizes of plot.py, scaled down so that every case
\* (eviction, several channels, the per-cycle line limit) is reachable.
max_sources == 2
\* The value of max_data_points (line 17) in the runs of the program, and in
\* the runs with room for two readings per channel.
MaxPoints == 1
MorePoints == MaxPoints + 1
max_new_data_to_read == 2
\* Lines the writer process may write to standard input in one run.
MaxLines == 2
\* Lines of the longer runs: a reading buffered in one cycle, then a cycle that
\* reads a batch for two channels.
MoreLines == MaxLines + 1
\* Sources of the larger program of the layout runs: 1..MaxGraphs regions are
\* laid out.
MaxGraphs == 7

\* y value that marks a saturated reading (line 55).
SATURATED == 65535

\* If true, don't plot readings of 65535 (line 40).
ignore_saturates == TRUE

Channels == 0 .. (max_sources - 1)

\* ------------------------------------------------------------ the input
\* A line is a sequence of one-character strings.
Digits == {"0", "1", "2", "3", "4", "5", "6", "7", "8", "9"}
Whitespace == {"\n", " "}

Lines ==
  { <<"0", ",", "1", ",", "7", "\n">>,
    <<"1", ",", "3", ",", "9", "\n">>,
    <<"0", ",", "4", ",", "6", "5", "5", "3", "5", "\n">>,
    <<"0", ",", "1", "\n">>,
    <<"0", ",", "x", ",", "7", "\n">>,
    <<"9", ",", "1", ",", "7", "\n">>,
    <<"-", "1", ",", "6", ",", "7", "\n">> }

\* ------------------------------------------------- Python's list indexing
\* a[k] for a list of length n: the 0-based position, or -1 for IndexError.
PyIndex(k, n) ==
  IF 0 <= k /\ k < n THEN k
  ELSE IF -n <= k /\ k < 0 THEN n + k
  ELSE -1

\* a[:n] in place of a[-n:]: the first n elements.
FirstN(a, n) ==
  IF Len(a) <= n THEN a ELSE SubSeq(a, 1, n)

\* a[-n:] for n > 0: the last n elements (all of a when it is shorter).
LastN(a, n) ==
  IF Len(a) <= n THEN a ELSE SubSeq(a, Len(a) - n + 1, Len(a))

\* ---------------------------------------------------- get_data_from_line
\* str.split(','): the fields between the commas.
RECURSIVE SplitFrom(_, _, _)
SplitFrom(line, k, cur) ==
  IF k > Len(line) THEN <<cur>>
  ELSE IF line[k] = "," THEN <<cur>> \o SplitFrom(line, k + 1, <<>>)
  ELSE SplitFrom(line, k + 1, Append(cur, line[k]))

Split(line) == SplitFrom(line, 1, <<>>)

\* str.strip() as int() and float() apply it to their argument.
RECURSIVE StripLeft(_)
StripLeft(f) ==
  IF f # <<>> /\ Head(f) \in Whitespace THEN StripLeft(Tail(f)) ELSE f

RECURSIVE StripRight(_)
StripRight(f) ==
  IF f # <<>> /\ f[Len(f)] \in Whitespace
  THEN StripRight(SubSeq(f, 1, Len(f) - 1)) ELSE f

Strip(f) == StripRight(StripLeft(f))

DigitVal(c) ==
  CASE c = "0" -> 0 [] c = "1" -> 1 [] c = "2" -> 2 [] c = "3" -> 3
    [] c = "4" -> 4 [] c = "5" -> 5 [] c = "6" -> 6 [] c = "7" -> 7
    [] c = "8" -> 8 [] c = "9" -> 9

RECURSIVE DecimalVal(_)
DecimalVal(d) ==
  IF d = <<>> THEN 0
  ELSE 10 * DecimalVal(SubSeq(d, 1, Len(d) - 1)) + DigitVal(d[Len(d)])

\* The digits of a stripped field after its optional sign.
Unsigned(f) == IF f # <<>> /\ Head(f) \in {"-", "+"} THEN Tail(f) ELSE f

\* int(f) and float(f) on the characters of Lines: optional whitespace, an
\* optional sign, one or more digits.  ok = FALSE stands for ValueError.
ParseNumber(f) ==
  LET g == Strip(f)
      d == Unsigned(g)
  IN IF d # <<>> /\ \A k \in 1 .. Len(d) : d[k] \in Digits
     THEN [ok |-> TRUE,
           val |-> IF Head(g) = "-" THEN -DecimalVal(d) ELSE DecimalVal(d)]
     ELSE [ok |-> FALSE, val |-> 0]

\* A parser that reads a missing or unparseable field as 0.
get_data_lenient(line) ==
  LET f == Split(line)
      field(k) == IF k <= Len(f) THEN ParseNumber(f[k]).val ELSE 0
  IN [ok |-> TRUE, s |-> field(1), x |-> field(2), y |-> field(3)]

\* s,x,y = line.split(','); return int(s), float(x), float(y)
\* ok = FALSE stands for the ValueError of the unpacking or of a conversion.
get_data_from_line(line) ==
  LET f == Split(line)
  IN IF Len(f) # 3 THEN [ok |-> FALSE, s |-> 0, x |-> 0, y |-> 0]
     ELSE LET s == ParseNumber(f[1])
              x == ParseNumber(f[2])
              y == ParseNumber(f[3])
          IN [ok |-> s.ok /\ x.ok /\ y.ok, s |-> s.val, x |-> x.val, y |-> y.val]

\* A filter that keeps every reading.
KeepAll(y) == TRUE

\* line 55: the reading is kept.
KeepReading(y) == ~ignore_saturates \/ y # SATURATED

\* -------------------------------------------------------------- calc_grid
\* A square grid: as many rows as columns.
calc_grid_square(n) ==
  LET c == CHOOSE c \in 0 .. n : c * c >= n /\ \A q \in 0 .. (c - 1) : q * q < n
  IN [rows |-> c, cols |-> c]

\* A grid with the row count rounded down: the greatest r with r*(r+1) <= n.
calc_grid_floor(n) ==
  [rows |-> CHOOSE r \in 0 .. n : r * (r + 1) <= n /\ (r + 1) * (r + 2) > n,
   cols |-> CHOOSE c \in 0 .. n : c * c >= n /\ \A q \in 0 .. (c - 1) : q * q < n]

\* rows = ceil(sqrt(n + 1/4) - 1/2): the least r with r*(r+1) >= n.
\* cols = ceil(sqrt(n)): the least c with c*c >= n.
calc_grid(n) ==
  [rows |-> CHOOSE r \in 0 .. n : r * (r + 1) >= n
                                  /\ \A q \in 0 .. (r - 1) : q * (q + 1) < n,
   cols |-> CHOOSE c \in 0 .. n : c * c >= n
                                  /\ \A q \in 0 .. (c - 1) : q * q < n]

\* ------------------------------------------------------------------ state
VARIABLES
  max_data_points, \* the module-level cap of a channel's buffer (line 17)
  killed,       \* the module-level flag handle_close sets
  axes,         \* the figure's subplots, in creation order
  ax_channel,   \* the data source channel the axis displays
  xs, ys,       \* per channel, the buffered samples
  locks,        \* per channel: "free", or the thread holding the lock
  pipe,         \* characters written to standard input and not yet read
  stdin_closed, \* the writer has closed its end
  to_write,     \* lines the writer may still write
  dpc,          \* data thread: position in read_new_data_from_stdin
  di,           \* data thread: i of the merge loop (line 65)
  buff,         \* data thread: the partial line
  data_read,    \* data thread: lines read in this cycle
  s_modded,     \* data thread: channels with a reading in this cycle
  temp_xs, temp_ys, \* data thread: this cycle's readings per channel
  rpc,          \* main thread: position in animate
  ri,           \* main thread: i of animate's loop (line 88)
  chan_ax,      \* main thread: the index found for channel i (line 90)
  accepted,     \* history: per channel, the readings kept so far, in order
  merged,       \* history: per channel, xs and ys after the last completed merge,
                \* and how many of the accepted readings had been merged by then
  seen,         \* history: per channel, the kinds of well-formed readings parsed
  calm          \* history: calls of animate begun since the data thread last
                \* wrote a buffer (2 stands for two or more)

shared == <<killed, axes, ax_channel, xs, ys, locks>>
input == <<pipe, stdin_closed, to_write>>
data_locals == <<dpc, di, buff, data_read, s_modded, temp_xs, temp_ys>>
render_locals == <<rpc, ri, chan_ax>>
history == <<accepted, merged, seen, calm>>
vars == <<max_data_points, shared, input, data_locals, render_locals, history>>

\* The value of the parameter `killed` of read_new_data_from_stdin and of
\* animate: the argument is the bool bound at lines 135-136, before any
\* event is handled; handle_close rebinds the module-level name only.
KilledSeenByThread == FALSE

\* The argument max_sources of read_new_data_from_stdin and of animate (lines
\* 135-136): xs, ys and locks have that many entries each (lines 25-27).
SourceCount == Cardinality(DOMAIN xs)

\* range(max_sources)
Sources == 0 .. (SourceCount - 1)

EmptyLists == [i \in Sources |-> <<>>]

\* The state of a program with the sources S and the buffer cap `cap` when its
\* threads start; the writer may write n lines.
InitOver(S, n, cap) ==
  /\ max_data_points = cap
  /\ killed = FALSE
  /\ axes = <<>>
  /\ ax_channel = <<>>
  /\ xs = [i \in S |-> <<>>]
  /\ ys = [i \in S |-> <<>>]
  /\ locks = [i \in S |-> "free"]
  /\ pipe = <<>>
  /\ stdin_closed = FALSE
  /\ to_write = n
  /\ dpc = "outer"
  /\ di = 0
  /\ buff = <<>>
  /\ data_read = 0
  /\ s_modded = [i \in S |-> FALSE]
  /\ temp_xs = [i \in S |-> <<>>]
  /\ temp_ys = [i \in S |-> <<>>]
  /\ rpc = "idle"
  /\ ri = 0
  /\ chan_ax = -1
  /\ accepted = [i \in S |-> <<>>]
  /\ merged = [i \in S |-> [xs |-> <<>>, ys |-> <<>>, n |-> 0]]
  /\ seen = [i \in S |-> {}]
  /\ calm = 0

InitWith(n) == InitOver(Channels, n, MaxPoints)

Init == InitWith(MaxLines)

\* The same program, a writer with one more line.
MoreInit == InitWith(MoreLines)

\* ------------------------------------------------------ the writer process
\* The writer's lines are chosen as they are written.  A line is written once
\* the one before it has been read: when its bytes arrive is decided by
\* SelectTimeout, which may find nothing to read at any byte.
WriteLine ==
  /\ to_write > 0
  /\ ~stdin_closed
  /\ pipe = <<>>
  /\ \E l \in Lines : pipe' = l
  /\ to_write' = to_write - 1
  /\ UNCHANGED <<max_data_points, stdin_closed, shared, data_locals, render_locals, history>>

\* The writer closes its end and writes no more.
CloseStdin ==
  /\ ~stdin_closed
  /\ pipe = <<>>
  /\ stdin_closed' = TRUE
  /\ to_write' = 0
  /\ UNCHANGED <<max_data_points, pipe, shared, data_locals, render_locals, history>>

\* ------------------------------------------------------------ the locks
\* An acquire that succeeds on a held lock.
AcquireAnyway(i) == TRUE

\* locks[i].acquire(False) returns True (lines 68 and 122).
CanAcquire(i) == locks[i] = "free"

\* A release that leaves the lock held.
NotReleased(l, i) == l

\* A release that frees every channel's lock.
ReleasedAll(l, i) == [j \in Channels |-> "free"]

\* locks[i].release() (lines 75 and 124)
Released(l, i) == [l EXCEPT ![i] = "free"]

\* ------------------------------------------- read_new_data_from_stdin
\* A merge loop that takes every channel's lock, batch or no batch.
MergeAlways(i) == TRUE

\* line 66: channel i has readings to merge in this cycle.
NeedsMerge(i) == s_modded[i]

\* A cycle that starts with an empty partial line.
CycleBuffEmpty(b) == <<>>

\* lines 38 and 42-47: buff is set once, before the loop of line 41, and is
\* not among the locals a cycle sets anew; b is what the last cycle left.
CycleBuff(b) == b

\* line 41 and lines 42-47: the loop test, reached when the thread starts and
\* when sleep(0.5) of line 79 returns, then the cycle's fresh locals.
CycleStart ==
  /\ dpc \in {"outer", "cycle_sleep"}
  /\ IF KilledSeenByThread
     THEN /\ dpc' = "returned"
          /\ UNCHANGED <<data_read, s_modded, temp_xs, temp_ys>>
     ELSE /\ dpc' = "inner"
          /\ data_read' = 0
          /\ s_modded' = [i \in Sources |-> FALSE]
          /\ temp_xs' = EmptyLists
          /\ temp_ys' = EmptyLists
  /\ buff' = CycleBuff(buff)
  /\ UNCHANGED <<max_data_points, di, shared, input, render_locals, history>>

\* line 48: the time test fails, the inner loop ends.
BudgetElapsed ==
  /\ dpc = "inner"
  /\ dpc' = "for"
  /\ di' = 0
  /\ UNCHANGED <<max_data_points, buff, data_read, s_modded, temp_xs, temp_ys,
                 shared, input, render_locals, history>>

\* lines 49-51, 63-64: select() times out with nothing to read (no byte has
\* arrived, or the bytes that arrived sit in sys.stdin's own buffer).  An
\* end of file always selects as readable.
SelectTimeout ==
  /\ dpc = "inner"
  /\ ~stdin_closed
  /\ dpc' = "for"
  /\ di' = 0
  /\ UNCHANGED <<max_data_points, buff, data_read, s_modded, temp_xs, temp_ys,
                 shared, input, render_locals, history>>

\* lines 54-62 for a complete line b: what the data thread's locals become.
\* pos = -1: temp_xs[s] raises IndexError.
LineOutcome(b) ==
  LET r == get_data_from_line(b)
      pos == PyIndex(r.s, SourceCount)
      keep == KeepReading(r.y)
  IN [raised |-> ~r.ok \/ (keep /\ pos = -1),
      keep |-> r.ok /\ keep /\ pos # -1,
      chan |-> pos, x |-> r.x, y |-> r.y]

\* A cycle that never stops on the number of lines read.
LimitNever(n) == FALSE

\* line 61: n lines have been read in this cycle, and that is the most.
LimitReached(n) == n >= max_new_data_to_read

\* lines 49-62: select() reports standard input readable and one character
\* is read; a newline completes the line.
ReadChar ==
  /\ dpc = "inner"
  /\ pipe # <<>>
  /\ pipe' = Tail(pipe)
  /\ LET b == Append(buff, Head(pipe))
         o == LineOutcome(b)
     IN IF b[Len(b)] # "\n"
        THEN /\ buff' = b
             /\ UNCHANGED <<dpc, di, data_read, s_modded, temp_xs, temp_ys,
                            accepted, seen>>
        ELSE IF o.raised
        THEN /\ buff' = b
             /\ dpc' = "raised"
             /\ UNCHANGED <<di, data_read, s_modded, temp_xs, temp_ys, accepted, seen>>
        ELSE /\ buff' = <<>>
             /\ seen' = IF o.chan = -1 THEN seen
                        ELSE [seen EXCEPT ![o.chan] =
                                @ \cup {IF o.y = 65535 THEN "saturated" ELSE "reading"}]
             /\ data_read' = data_read + 1
             /\ IF LimitReached(data_read + 1)
                THEN dpc' = "for" /\ di' = 0
                ELSE UNCHANGED <<dpc, di>>
             /\ IF o.keep
                THEN /\ temp_xs' = [temp_xs EXCEPT ![o.chan] = Append(@, o.x)]
                     /\ temp_ys' = [temp_ys EXCEPT ![o.chan] = Append(@, o.y)]
                     /\ s_modded' = [s_modded EXCEPT ![o.chan] = TRUE]
                     /\ accepted' = [accepted EXCEPT ![o.chan] = Append(@, <<o.x, o.y>>)]
                ELSE UNCHANGED <<s_modded, temp_xs, temp_ys, accepted>>
  /\ UNCHANGED <<max_data_points, stdin_closed, to_write, shared, render_locals, merged, calm>>

\* lines 51-53 at end of file: read(1) returns '', buff is unchanged and does
\* not end with a newline; the inner loop goes round again.
ReadEOF ==
  /\ dpc = "inner"
  /\ pipe = <<>>
  /\ stdin_closed
  /\ UNCHANGED vars

\* lines 65-66: the next channel of the merge loop, or line 79 after the last.
ForStep ==
  /\ dpc = "for"
  /\ IF di >= SourceCount THEN dpc' = "cycle_sleep" /\ di' = di
     ELSE IF NeedsMerge(di) THEN dpc' = "acquire" /\ di' = di
     ELSE dpc' = "for" /\ di' = di + 1
  /\ UNCHANGED <<max_data_points, buff, data_read, s_modded, temp_xs, temp_ys,
                 shared, input, render_locals, history>>

\* lines 67-68: the loop test, reached from line 66 or when sleep(0.01) of
\* line 78 returns, and locks[i].acquire(False), which succeeds.
DataAcquire ==
  /\ dpc \in {"acquire", "retry_sleep"}
  /\ ~KilledSeenByThread
  /\ CanAcquire(di)
  /\ locks' = [locks EXCEPT ![di] = "data"]
  /\ dpc' = "cat_xs"
  /\ UNCHANGED <<max_data_points, killed, axes, ax_channel, xs, ys, di, buff, data_read, s_modded,
                 temp_xs, temp_ys, input, render_locals, history>>

\* lines 67-68, 77-78: the same, but the lock is taken; the thread goes (back)
\* to sleep(0.01).
DataAcquireBusy ==
  /\ dpc \in {"acquire", "retry_sleep"}
  /\ ~KilledSeenByThread
  /\ ~CanAcquire(di)
  /\ dpc' = "retry_sleep"
  /\ UNCHANGED <<max_data_points, di, buff, data_read, s_modded, temp_xs, temp_ys,
                 shared, input, render_locals, history>>

\* line 69
CatXs ==
  /\ dpc = "cat_xs"
  /\ xs' = [xs EXCEPT ![di] = @ \o temp_xs[di]]
  /\ calm' = 0
  /\ dpc' = "cat_ys"
  /\ UNCHANGED <<max_data_points, killed, axes, ax_channel, ys, locks, di, buff, data_read, s_modded,
                 temp_xs, temp_ys, input, render_locals, accepted, merged, seen>>

\* lines 70-71
CatYs ==
  /\ dpc = "cat_ys"
  /\ ys' = [ys EXCEPT ![di] = @ \o temp_ys[di]]
  /\ calm' = 0
  /\ dpc' = IF Len(xs[di]) > max_data_points THEN "trim_xs" ELSE "release"
  /\ UNCHANGED <<max_data_points, killed, axes, ax_channel, xs, locks, di, buff, data_read, s_modded,
                 temp_xs, temp_ys, input, render_locals, accepted, merged, seen>>

\* line 72
TrimXs ==
  /\ dpc = "trim_xs"
  /\ xs' = [xs EXCEPT ![di] = LastN(@, max_data_points)]
  /\ calm' = 0
  /\ dpc' = "trim_ys"
  /\ UNCHANGED <<max_data_points, killed, axes, ax_channel, ys, locks, di, buff, data_read, s_modded,
                 temp_xs, temp_ys, input, render_locals, accepted, merged, seen>>

\* line 73
TrimYs ==
  /\ dpc = "trim_ys"
  /\ ys' = [ys EXCEPT ![di] = LastN(@, max_data_points)]
  /\ calm' = 0
  /\ dpc' = "release"
  /\ UNCHANGED <<max_data_points, killed, axes, ax_channel, xs, locks, di, buff, data_read, s_modded,
                 temp_xs, temp_ys, input, render_locals, accepted, merged, seen>>

\* lines 75-76: release, and on to the next channel.
DataRelease ==
  /\ dpc = "release"
  /\ locks' = Released(locks, di)
  /\ merged' = [merged EXCEPT ![di] = [xs |-> xs[di], ys |-> ys[di],
                                       n |-> Len(accepted[di])]]
  /\ dpc' = "for"
  /\ di' = di + 1
  /\ UNCHANGED <<max_data_points, killed, axes, ax_channel, xs, ys, buff, data_read, s_modded,
                 temp_xs, temp_ys, input, render_locals, accepted, seen, calm>>

DataNext ==
  \/ CycleStart \/ BudgetElapsed \/ SelectTimeout \/ ReadChar \/ ReadEOF
  \/ ForStep \/ DataAcquire \/ DataAcquireBusy
  \/ CatXs \/ CatYs \/ TrimXs \/ TrimYs \/ DataRelease

\* ------------------------------------------------------------------ animate
\* A search that looks at the first entry only.
FindAxisFirstOnly(chans, i) ==
  IF chans # <<>> /\ chans[1] = i THEN 0 ELSE -1

\* A search that never finds the channel.
FindAxisNever(chans, i) == -1

\* lines 90-93: the index of the last entry of ax_channel equal to i, or -1.
FindAxis(chans, i) ==
  LET hits == {j \in 1 .. Len(chans) : chans[j] = i}
  IN IF hits = {} THEN -1
     ELSE (CHOOSE j \in hits : \A k \in hits : k <= j) - 1

\* fig.add_subplot(rows, cols, pos): a new, empty subplot.
Subplot(g, p) == [rows |-> g.rows, cols |-> g.cols, pos |-> p, lines |-> <<>>]

\* lines 99-113: every subplot is deleted and made anew in the grid for one
\* more graph, then one is added.
Relayout(old) ==
  LET g == calc_grid(Len(old) + 1)
  IN [j \in 1 .. (Len(old) + 1) |-> Subplot(g, j)]

\* An index that takes -1, "no region found", for the first region.
AxisAtOrFirst(k) == IF k < 0 THEN 1 ELSE k + 1

\* axes[k] for the Python index k (negative counts from the end); 1-based.
AxisAt(k) == PyIndex(k, Len(axes)) + 1

\* ax.clear()
Cleared(ax) == [ax EXCEPT !.lines = <<>>]

\* ax.plot(x, y): one more line, drawn from channel c's buffer.
Plotted(ax, x, y, c) == [ax EXCEPT !.lines = Append(@, [x |-> x, y |-> y, chan |-> c])]

\* The loop of line 88 moves on to the next channel, or animate returns.
\* animate's locals are gone once it has returned.
NextChannel ==
  IF ri + 1 < SourceCount
  THEN rpc' = "lookup" /\ ri' = ri + 1 /\ UNCHANGED chan_ax
  ELSE rpc' = "idle" /\ ri' = 0 /\ chan_ax' = -1

\* The timer of FuncAnimation (line 135) calls animate.  The animation stops
\* its timer on the figure's close event, so no call follows handle_close.
Tick ==
  /\ rpc = "idle"
  /\ ~killed
  /\ rpc' = "lookup"
  /\ ri' = 0
  /\ calm' = IF calm < 2 THEN calm + 1 ELSE 2
  /\ UNCHANGED <<max_data_points, chan_ax, shared, input, data_locals, accepted, merged, seen>>

\* lines 90-97, and 117-120 when the channel has an axis.
Lookup ==
  /\ rpc = "lookup"
  /\ LET j == FindAxis(ax_channel, ri)
     IN /\ chan_ax' = j
        /\ IF j = -1
           THEN rpc' = "check_len" /\ UNCHANGED axes
           ELSE /\ rpc' = "acquire"
                /\ axes' = [axes EXCEPT ![PyIndex(j, Len(axes)) + 1] = Cleared(@)]
  /\ UNCHANGED <<max_data_points, ri, killed, ax_channel, xs, ys, locks, input, data_locals, history>>

\* A test that takes every channel to have data.
HasDataAlways(i) == TRUE

\* line 98: len(xs[i]) is not zero.
HasData(i) == Len(xs[i]) # 0

\* lines 98-115 and 119-120: len(xs[i]) is read; a channel with data gets a
\* new axis, which is then cleared.
CheckLen ==
  /\ rpc = "check_len"
  /\ IF HasData(ri)
     THEN /\ LET new == Relayout(axes)
             IN axes' = [new EXCEPT ![PyIndex(chan_ax, Len(new)) + 1] = Cleared(@)]
          /\ ax_channel' = Append(ax_channel, ri)
          /\ rpc' = "acquire"
          /\ UNCHANGED <<ri, chan_ax>>
     ELSE /\ NextChannel
          /\ UNCHANGED <<axes, ax_channel>>
  /\ UNCHANGED <<max_data_points, killed, xs, ys, locks, input, data_locals, history>>

\* lines 121-122: the loop test, reached from line 120 or when sleep(0.01) of
\* line 127 returns, and locks[i].acquire(False), which succeeds.
RenderAcquire ==
  /\ rpc \in {"acquire", "retry_sleep"}
  /\ ~KilledSeenByThread
  /\ CanAcquire(ri)
  /\ locks' = [locks EXCEPT ![ri] = "main"]
  /\ rpc' = "plot"
  /\ UNCHANGED <<max_data_points, ri, chan_ax, killed, axes, ax_channel, xs, ys,
                 input, data_locals, history>>

\* lines 121-122, 126-127: the same, but the lock is taken; sleep(0.01).
RenderAcquireBusy ==
  /\ rpc \in {"acquire", "retry_sleep"}
  /\ ~KilledSeenByThread
  /\ ~CanAcquire(ri)
  /\ rpc' = "retry_sleep"
  /\ UNCHANGED <<max_data_points, ri, chan_ax, shared, input, data_locals, history>>

\* line 123
Plot ==
  /\ rpc = "plot"
  /\ axes' = [axes EXCEPT ![AxisAt(chan_ax)] = Plotted(@, xs[ri], ys[ri], ri)]
  /\ rpc' = "release"
  /\ UNCHANGED <<max_data_points, ri, chan_ax, killed, ax_channel, xs, ys, locks,
                 input, data_locals, history>>

\* lines 124-125: release, and on to the next channel.
RenderRelease ==
  /\ rpc = "release"
  /\ locks' = Released(locks, ri)
  /\ NextChannel
  /\ UNCHANGED <<max_data_points, killed, axes, ax_channel, xs, ys, input, data_locals, history>>

RenderNext ==
  \/ Tick \/ Lookup \/ CheckLen
  \/ RenderAcquire \/ RenderAcquireBusy \/ Plot \/ RenderRelease

\* ------------------------------------------------------------- handle_close
\* lines 129-131.  The GUI delivers the close event on the main thread,
\* between two callbacks, so never while animate runs.
handle_close ==
  /\ rpc = "idle"
  /\ ~killed
  /\ killed' = TRUE
  /\ UNCHANGED <<max_data_points, axes, ax_channel, xs, ys, locks, input, data_locals,
                 render_locals, history>>

\* ------------------------------------------------------------ specification
Next == WriteLine \/ CloseStdin \/ DataNext \/ RenderNext \/ handle_close

Spec == Init /\ [][Next]_vars

\* Both threads keep running (the interpreter switches between them, the GUI
\* timer keeps calling animate), and a thread that retries a lock every 10 ms
\* gets it once it is free again and again: the other thread holds it for a
\* few statements per cycle or tick.  The writer owes nothing.
Fairness ==
  /\ WF_vars(DataNext)
  /\ WF_vars(RenderNext)
  /\ SF_vars(DataAcquire)
  /\ SF_vars(RenderAcquire)

FairSpec == Init /\ [][Next]_vars /\ Fairness

MoreSpec == MoreInit /\ [][Next]_vars

\* The program with room for MorePoints readings per channel, and a writer
\* with enough lines to overfill one buffer.
CapInit == InitOver(Channels, MoreLines, MorePoints)

CapSpec == CapInit /\ [][Next]_vars

\* ------------------------------------------------- the program, more sources
\* The program with the sources S at a quiet moment: the writer has sent the
\* reading 1,7 for each of the channels 0 .. k-1, one at a time and in this
\* order, the data thread has merged them and sleeps after a cycle in which
\* nothing arrived (line 79), and animate has drawn the k regions in two
\* calls since and has returned.  The writer may write n more lines.
DrawnWith(S, k, n) ==
  /\ max_data_points = MaxPoints
  /\ killed = FALSE
  /\ axes = [j \in 1 .. k |-> Plotted(Subplot(calc_grid(k), j), <<1>>, <<7>>, j - 1)]
  /\ ax_channel = [j \in 1 .. k |-> j - 1]
  /\ xs = [i \in S |-> IF i < k THEN <<1>> ELSE <<>>]
  /\ ys = [i \in S |-> IF i < k THEN <<7>> ELSE <<>>]
  /\ locks = [i \in S |-> "free"]
  /\ pipe = <<>>
  /\ stdin_closed = FALSE
  /\ to_write = n
  /\ dpc = "cycle_sleep"
  /\ di = Cardinality(S)
  /\ buff = <<>>
  /\ data_read = 0
  /\ s_modded = [i \in S |-> FALSE]
  /\ temp_xs = [i \in S |-> <<>>]
  /\ temp_ys = [i \in S |-> <<>>]
  /\ rpc = "idle"
  /\ ri = 0
  /\ chan_ax = -1
  /\ accepted = [i \in S |-> IF i < k THEN << <<1, 7>> >> ELSE <<>>]
  /\ merged = [i \in S |-> IF i < k THEN [xs |-> <<1>>, ys |-> <<7>>, n |-> 1]
                                     ELSE [xs |-> <<>>, ys |-> <<>>, n |-> 0]]
  /\ seen = [i \in S |-> IF i < k THEN {"reading"} ELSE {}]
  /\ calm = 2

\* The sources of the larger program.
Graphs == 0 .. (MaxGraphs - 1)

\* The larger program with any number of its channels drawn, and one more
\* line to come.
LayoutInit == \E k \in 0 .. (MaxGraphs - 1) : DrawnWith(Graphs, k, 1)

LayoutSpec == LayoutInit /\ [][Next]_vars

\* ============================================================ properties
\* Positions of the data thread inside the merge loop of lines 65-78.
MergeLoop ==
  {"for", "acquire", "retry_sleep", "cat_xs", "cat_ys", "trim_xs", "trim_ys", "release"}

\* Positions of the data thread between acquire and release of locks[di].
DataCritical == {"cat_xs", "cat_ys", "trim_xs", "trim_ys", "release"}

\* This cycle's merge into channel i is over (or channel i had nothing to merge).
AfterMerge(i) == dpc = "cycle_sleep" \/ (dpc \in MergeLoop /\ di > i)

\* The k-th coordinates of a sequence of <<x, y>> readings.
Column(readings, k) == [j \in 1 .. Len(readings) |-> readings[j][k]]

\* b is the end of a, and as long as the cap allows.
IsCappedTail(b, a, cap) ==
  /\ Len(b) = (IF Len(a) <= cap THEN Len(a) ELSE cap)
  /\ \A j \in 1 .. Len(b) : b[j] = a[Len(a) - Len(b) + j]

\* C1: after each merge into channel i the buffer is no longer than
\* max_data_points, and xs[i], ys[i] are exactly the last max_data_points
\* readings accepted for channel i, in arrival order (the oldest are the ones
\* evicted); outside the data thread's critical section the buffer never
\* exceeds max_data_points.
C1_BufferIsLastAccepted ==
  \A i \in Channels :
    /\ locks[i] # "data" =>
         Len(xs[i]) <= max_data_points /\ Len(ys[i]) <= max_data_points
    /\ AfterMerge(i) =>
         /\ IsCappedTail(xs[i], Column(accepted[i], 1), max_data_points)
         /\ IsCappedTail(ys[i], Column(accepted[i], 2), max_data_points)

\* C1 witness: the buffer has room for two readings or more, a completed merge
\* has evicted the oldest reading of a channel, and the readings kept are
\* several, each different from the one that arrived before it.
C1_Witness ==
  \E i \in Channels :
    /\ dpc = "cycle_sleep"
    /\ max_data_points >= 2
    /\ Len(accepted[i]) > max_data_points
    /\ \A j \in 2 .. Len(accepted[i]) : accepted[i][j] # accepted[i][j - 1]
    /\ Len(xs[i]) = max_data_points
    /\ xs[i][1] # xs[i][2]

\* C2 (as claimed): no two callers read or write the same channel's buffer
\* concurrently: animate is never at a read of xs[i]/ys[i] (len(xs[i]) at
\* line 98, plot at line 123) while the data thread is between its acquire and
\* its release of locks[i], where it rewrites xs[i] and ys[i].
C2_NoConcurrentAccess ==
  ~(/\ rpc \in {"check_len", "plot"}
    /\ dpc \in DataCritical
    /\ ri = di)

\* C3 (as claimed): once handle_close has set the flag, no `while not killed`
\* test lets its loop go on: the data thread starts no further cycle and makes
\* takes no further lock, and neither does animate.
C3_LoopsObserveKilled ==
  [][killed =>
       /\ (dpc = "cycle_sleep" => dpc' # "inner")
       /\ (dpc \in {"acquire", "retry_sleep"} => dpc' # "cat_xs")
       /\ (rpc \in {"acquire", "retry_sleep"} => rpc' # "plot")]_vars

\* The data thread is retrying locks[di]; animate is retrying locks[ri].
DataWaiting == dpc \in {"acquire", "retry_sleep"}
RenderWaiting == rpc \in {"acquire", "retry_sleep"}

\* C4: with both threads scheduled fairly and shutdown not requested, a merge
\* that is retrying locks[i] eventually gets the lock and completes (the data
\* thread is back at the merge loop's `for`, which it reaches from the retry
\* loop only through lines 69-76), and a tick that is retrying a lock
\* eventually gets it and the tick completes.
C4_NoIndefiniteLockWait ==
  /\ (DataWaiting /\ ~killed) ~> (dpc = "for")
  /\ (RenderWaiting /\ ~killed) ~> (rpc = "idle")

\* C4 witness: the data thread found locks[i] held by animate and sleeps
\* before its next attempt.
C4_Witness == dpc = "retry_sleep" /\ locks[di] = "main" /\ ~killed

\* Channel a has accepted readings that are not yet merged into its buffer.
Pending(a) == dpc # "raised" /\ merged[a].n < Len(accepted[a])

\* C5 (as claimed): while animate holds channel B's lock, the append of a
\* pending batch to another channel A never waits for B's lock, whatever
\* batches are pending.
C5_NeverWaitsOnOtherChannel ==
  \A A \in Channels, B \in Channels :
    ~(/\ A # B
      /\ Pending(A)
      /\ locks[B] = "main"
      /\ dpc = "retry_sleep" /\ di = B)

\* C5 (amended): the append to channel A is delayed by the lock of another
\* channel B only when B comes before A in the merge loop and has a batch of
\* its own pending: whenever the data thread waits for a lock it waits for
\* the lock of a channel whose batch is pending, every pending batch belongs
\* to that channel or a later one, and a free lock is taken whatever the
\* other locks are.
C5_WaitsOnlyOnEarlierPendingChannel ==
  /\ DataWaiting =>
       /\ Pending(di)
       /\ \A a \in Channels : Pending(a) => di <= a
  /\ (dpc = "acquire" /\ locks[di] = "free") => ENABLED DataAcquire

\* C5 witness: animate holds channel B's lock while the data thread appends
\* a batch to another channel A.
C5_Witness ==
  \E A \in Channels, B \in Channels :
    A # B /\ locks[B] = "main" /\ dpc = "cat_ys" /\ di = A /\ Pending(A)

Range(s) == {s[j] : j \in 1 .. Len(s)}

\* The regions' places in the grid, without what is drawn in them.
Geometry(a) == [j \in 1 .. Len(a) |-> <<a[j].rows, a[j].cols, a[j].pos>>]

\* C6: in every step, ax_channel names no channel twice, axes and ax_channel
\* have equal length, a change of ax_channel appends exactly one entry and
\* keeps every existing entry at its index, and a channel with a region keeps it.
C6_RegionsAppendOnlyAndUnique ==
  [][/\ Len(axes') = Len(ax_channel')
     /\ \A j \in 1 .. Len(ax_channel'), k \in 1 .. Len(ax_channel') :
          ax_channel'[j] = ax_channel'[k] => j = k
     /\ ax_channel' # ax_channel =>
          /\ Len(ax_channel') = Len(ax_channel) + 1
          /\ SubSeq(ax_channel', 1, Len(ax_channel)) = ax_channel
     /\ Range(ax_channel) \subseteq Range(ax_channel')]_vars

\* C6 witness: a relayout has moved an existing region and added a second one.
C6_Witness == Len(ax_channel) = 2 /\ Len(axes) = 2

\* C7: a call of animate that begins after a whole call during and after which
\* the data thread wrote no buffer (calm = 2) creates no region and changes
\* neither ax_channel nor the grid; and no step of animate changes a buffer.
C7_SecondTickChangesNothing ==
  [][/\ (calm = 2 /\ calm' = 2) =>
          ax_channel' = ax_channel /\ Geometry(axes') = Geometry(axes)
     /\ render_locals' # render_locals => xs' = xs /\ ys' = ys]_vars

\* C7 witness: the second of two such calls is drawing a channel's region.
C7_Witness == calm = 2 /\ rpc = "plot" /\ xs[ri] # <<>>

\* b is a run of consecutive elements of a.
IsRun(b, a) ==
  \E k \in 0 .. Len(a) :
    k + Len(b) <= Len(a) /\ \A j \in 1 .. Len(b) : b[j] = a[k + j]

\* C8: the line animate plots for channel i has as many x as y, and is the
\* buffer as it stood after the last completed merge into channel i: a run of
\* consecutive readings accepted for channel i, never a half-updated buffer.
C8_PlotSeesMergedBuffer ==
  [][(rpc = "plot" /\ rpc' = "release") =>
       LET drawn == axes'[AxisAt(chan_ax)].lines
           l == drawn[Len(drawn)]
       IN /\ l.chan = ri
          /\ Len(l.x) = Len(l.y)
          /\ l.x = merged[ri].xs /\ l.y = merged[ri].ys
          /\ IsRun(l.x, Column(accepted[ri], 1))
          /\ IsRun(l.y, Column(accepted[ri], 2))]_vars

\* C8 witness: animate has plotted a channel's readings while the data thread
\* holds further readings of that channel, accepted and not yet merged.
C8_Witness ==
  /\ rpc = "release"
  /\ axes[AxisAt(chan_ax)].lines # <<>>
  /\ axes[AxisAt(chan_ax)].lines[1].x # <<>>
  /\ Pending(ri)

\* The number of commas of a line.
Commas(b) == Cardinality({k \in 1 .. Len(b) : b[k] = ","})

\* A line of Lines that is malformed: not three fields, or a field that is
\* no number.
Malformed(b) == Commas(b) # 2 \/ "x" \in Range(b)

\* C9: reading the newline of a malformed line terminates the data thread;
\* once it has terminated on a line no channel lock is held by it and every
\* buffer is as the last completed merge left it; and every call of animate
\* in progress then completes.
C9_MalformedLineStopsIngestionOnly ==
  /\ [][/\ (dpc = "inner" /\ pipe # <<>> /\ pipe' # pipe /\ Head(pipe) = "\n"
            /\ Malformed(Append(buff, "\n"))) => dpc' = "raised"
        /\ dpc' = "raised" =>
             \A i \in Channels :
               /\ locks'[i] # "data"
               /\ xs'[i] = merged'[i].xs /\ ys'[i] = merged'[i].ys
               /\ (rpc = "plot" /\ rpc' = "release" /\ ri = i) =>
                    LET drawn == axes'[AxisAt(chan_ax)].lines
                    IN drawn[Len(drawn)].x = merged[i].xs]_vars
  /\ (dpc = "raised" /\ rpc # "idle") ~> (rpc = "idle")

\* C9 witness: the data thread has terminated on a malformed line, with
\* readings merged before it, and animate is drawing them.
C9_Witness ==
  /\ dpc = "raised" /\ Malformed(buff)
  /\ rpc = "plot" /\ xs[ri] # <<>>

\* C10: no reading with y = 65535 is in a temporary batch or in a buffer, and
\* a channel for which no other reading has been parsed has an empty batch,
\* an empty buffer and no region.
C10_SaturatedNeverBuffered ==
  \A i \in Channels :
    /\ 65535 \notin Range(temp_ys[i]) \cup Range(ys[i])
    /\ "reading" \notin seen[i] =>
         /\ temp_xs[i] = <<>> /\ temp_ys[i] = <<>>
         /\ xs[i] = <<>> /\ ys[i] = <<>>
         /\ i \notin Range(ax_channel)

\* C10 witness: only saturated readings were parsed for channel i, the cycle
\* that read them has merged, and animate has since given another channel a
\* region.
C10_Witness ==
  \E i \in Channels :
    /\ seen[i] = {"saturated"}
    /\ dpc = "cycle_sleep"
    /\ ax_channel # <<>>
    /\ rpc = "idle"

\* The grid of the regions laid out: every region of one layout is placed in
\* the same grid.
GridIs(r, c) == \A j \in 1 .. Len(axes) : axes[j].rows = r /\ axes[j].cols = c

\* C11 (as claimed): a step that lays the regions out anew leaves, with
\* n = 1, 2, 3, 4, 5 regions, the grid 1x1, 1x2, 2x2, 2x3, 3x3.
C11_GridSequenceAsClaimed ==
  [][Len(axes') # Len(axes) =>
       /\ Len(axes') = 1 => GridIs(1, 1)'
       /\ Len(axes') = 2 => GridIs(1, 2)'
       /\ Len(axes') = 3 => GridIs(2, 2)'
       /\ Len(axes') = 4 => GridIs(2, 3)'
       /\ Len(axes') = 5 => GridIs(3, 3)']_vars

\* C11 (amended): with n = 1, 2, 3, 4, 5 regions the grid is 1x1, 1x2, 2x2,
\* 2x2, 2x3 (2x3 again at 6, 3x3 from 7 to 9); for every n laid out, rows is
\* ceil(sqrt(n + 1/4) - 1/2), that is (rows-1)*rows < n <= rows*(rows+1), and
\* cols is ceil(sqrt(n)), that is (cols-1)^2 < n <= cols^2; and region j of
\* the layout is at position j of the grid.
C11_GridSequence ==
  /\ Len(axes) = 1 => GridIs(1, 1)
  /\ Len(axes) = 2 => GridIs(1, 2)
  /\ Len(axes) = 3 => GridIs(2, 2)
  /\ Len(axes) = 4 => GridIs(2, 2)
  /\ Len(axes) = 5 => GridIs(2, 3)
  /\ Len(axes) = 6 => GridIs(2, 3)
  /\ Len(axes) \in 7 .. 9 => GridIs(3, 3)
  /\ \A j \in 1 .. Len(axes) :
       LET n == Len(axes)
           r == axes[j].rows
           c == axes[j].cols
       IN /\ (r - 1) * r < n /\ n <= r * (r + 1)
          /\ (c - 1) * (c - 1) < n /\ n <= c * c
          /\ axes[j].pos = j

\* C11 witness: animate has just laid out a fifth region, for the last
\* channel, beside the regions of channels 0 to 3.
C11_Witness ==
  /\ rpc = "acquire" /\ chan_ax = -1
  /\ Len(axes) = 5 /\ ax_channel = <<0, 1, 2, 3, MaxGraphs - 1>>
  /\ GridIs(2, 3)

\* C12 (as claimed): at end of file (the writer has closed its end and every
\* byte has been read) the poll of the inner loop ends as it does when no data
\* is available, through the `else: break` of lines 63-64, and does not go
\* round again.
C12_EofEndsPollEarly ==
  (dpc = "inner" /\ stdin_closed /\ pipe = <<>>) =>
    (ENABLED SelectTimeout) /\ ~(ENABLED ReadEOF)

\* The number of readings in the per-channel lists t, all channels together.
RECURSIVE SumLen(_, _)
SumLen(t, i) == IF i >= max_sources THEN 0 ELSE Len(t[i]) + SumLen(t, i + 1)

\* C13: in every cycle at most max_new_data_to_read lines are read, and the
\* inner loop is left when that many have been read; the batches of a cycle
\* hold at most as many readings as lines were read, all channels together,
\* and a merge appends exactly the cycle's batch of its channel; and outside
\* the inner loop the data thread takes no byte from the stream.
C13_CycleReadsAtMostLimit ==
  [][/\ data_read' <= max_new_data_to_read
     /\ dpc' = "inner" => data_read' < max_new_data_to_read
     /\ SumLen(temp_xs', 0) <= data_read' /\ SumLen(temp_ys', 0) <= data_read'
     /\ \A i \in Channels :
          /\ Len(xs'[i]) > Len(xs[i]) => xs'[i] = xs[i] \o temp_xs[i]
          /\ Len(ys'[i]) > Len(ys[i]) => ys'[i] = ys[i] \o temp_ys[i]
     /\ dpc # "inner" => (pipe' = pipe \/ pipe = <<>>)]_vars

\* C13 witness: the cycle has stopped reading at the limit, every line read
\* gave a reading, and a further line waits in the stream while the batch is
\* merged.
C13_Witness ==
  /\ dpc = "cat_xs"
  /\ data_read = max_new_data_to_read
  /\ SumLen(temp_xs, 0) = max_new_data_to_read
  /\ pipe # <<>>

\* C14: no step of the data thread changes axes or ax_channel; and the only
\* step that changes ax_channel or the regions' places in the grid is the
\* step of animate that, for a channel with a non-empty buffer and no region,
\* lays the regions out anew (lines 98-115).
C14_LayoutOwnedByRender ==
  [][/\ (data_locals' # data_locals \/ xs' # xs \/ ys' # ys) =>
          axes' = axes /\ ax_channel' = ax_channel
     /\ (ax_channel' # ax_channel \/ Geometry(axes') # Geometry(axes)) =>
          /\ rpc = "check_len" /\ rpc' = "acquire"
          /\ xs[ri] # <<>>
          /\ ri \notin Range(ax_channel)
          /\ data_locals' = data_locals /\ xs' = xs /\ ys' = ys]_vars

\* C14 witness: animate has just laid out a second region while the data
\* thread is in the middle of a merge.
C14_Witness ==
  /\ rpc = "acquire" /\ chan_ax = -1
  /\ Len(axes) = 2 /\ axes[1].cols = 2
  /\ dpc \in DataCritical

\* Channel i's region: the index of its entry in ax_channel (0 if none).
RegionOf(chans, i) ==
  IF i \in Range(chans) THEN CHOOSE j \in 1 .. Len(chans) : chans[j] = i ELSE 0

\* C15: while animate draws channel i, channel i has a region; the step that
\* clears a region for channel i leaves channel i's region empty, and when no
\* region is created it leaves every other region as it was; the step that
\* plots channel i's buffer adds it to channel i's region and to no other;
\* and so every line in a region was drawn from the buffer of the channel
\* that ax_channel names for it.
C15_DrawsIntoOwnRegion ==
  [][/\ rpc' \in {"acquire", "retry_sleep", "plot", "release"} =>
          ri' \in Range(ax_channel')
     /\ (rpc \in {"lookup", "check_len"} /\ rpc' = "acquire") =>
          /\ axes'[RegionOf(ax_channel', ri)].lines = <<>>
          /\ rpc = "lookup" =>
               \A j \in 1 .. Len(axes) : ax_channel[j] # ri => axes'[j] = axes[j]
     /\ (rpc = "plot" /\ rpc' = "release") =>
          /\ axes'[RegionOf(ax_channel, ri)].lines =
               Append(axes[RegionOf(ax_channel, ri)].lines,
                      [x |-> xs[ri], y |-> ys[ri], chan |-> ri])
          /\ \A j \in 1 .. Len(axes) : ax_channel[j] # ri => axes'[j] = axes[j]
     /\ \A j \in 1 .. Len(axes') : \A k \in 1 .. Len(axes'[j].lines) :
          axes'[j].lines[k].chan = ax_channel'[j]]_vars

\* C15 witness: in the tick that created channel 0's region, as the second
\* region, chan_ax is still -1 and channel 0's buffer has been plotted in it.
C15_Witness ==
  /\ rpc = "release" /\ ri = 0 /\ chan_ax = -1
  /\ ax_channel = <<1, 0>>
  /\ axes[2].lines # <<>> /\ axes[2].lines[1].x = xs[0] /\ xs[0] # <<>>
  /\ axes[1].lines = <<>>

\* A well-formed line whose channel field is no index of 0..max_sources-1.
OutOfRange(b) ==
  LET r == get_data_from_line(b) IN r.ok /\ r.s \notin Channels

\* C16 (as claimed): reading the newline of a well-formed line whose channel
\* index lies outside 0..max_sources-1 terminates the data thread, and adds
\* no sample to any batch or buffer.
C16_OutOfRangeChannelFaults ==
  [][(/\ dpc = "inner" /\ pipe # <<>> /\ pipe' # pipe /\ Head(pipe) = "\n"
      /\ OutOfRange(Append(buff, "\n"))) =>
        /\ dpc' = "raised"
        /\ temp_xs' = temp_xs /\ temp_ys' = temp_ys
        /\ xs' = xs /\ ys' = ys]_vars

\* C17: the partial line and the bytes still in the stream are together
\* exactly one line as the writer wrote it (nothing, between lines); buff
\* changes only by the byte the inner loop reads, and is emptied only when
\* that byte is the newline; the newline makes one record of the whole line,
\* counted once and added to at most one batch; and no byte leaves the stream
\* except by the inner loop's read.
C17_SplitLineParsedOnce ==
  [][/\ dpc' # "raised" => (buff' \o pipe' = <<>> \/ buff' \o pipe' \in Lines)
     /\ buff' # buff =>
          /\ dpc = "inner" /\ pipe # <<>> /\ pipe' = Tail(pipe)
          /\ buff' = Append(buff, Head(pipe)) \/ (Head(pipe) = "\n" /\ buff' = <<>>)
     /\ (pipe # <<>> /\ pipe' # pipe) =>
          dpc = "inner" /\ pipe' = Tail(pipe) /\ buff' # buff
     /\ (dpc = "inner" /\ pipe = <<"\n">> /\ pipe' = <<>> /\ dpc' # "raised") =>
          LET o == LineOutcome(buff \o pipe)
          IN /\ buff \o pipe \in Lines
             /\ data_read' = data_read + 1
             /\ \A i \in Channels :
                  accepted'[i] = IF o.keep /\ o.chan = i
                                 THEN Append(accepted[i], <<o.x, o.y>>)
                                 ELSE accepted[i]]_vars

\* C17 witness: a cycle has read and merged one line and has ended with the
\* first bytes of the next line in buff, the rest still in the stream.
C17_Witness ==
  /\ dpc = "cycle_sleep"
  /\ buff # <<>> /\ pipe # <<>>
  /\ \E i \in Channels : merged[i].n = 1

\* C18: for every number n of regions laid out, the grid has at least n cells,
\* has as many rows as columns or one row fewer, and every region's position
\* is a cell of the grid, no two regions at the same one.
C18_GridHoldsEveryRegion ==
  \A j \in 1 .. Len(axes) :
    LET n == Len(axes)
        r == axes[j].rows
        c == axes[j].cols
    IN /\ r * c >= n
       /\ c - 1 <= r /\ r <= c
       /\ axes[j].pos \in 1 .. (r * c)
       /\ \A k \in 1 .. Len(axes) : axes[k].pos = axes[j].pos => k = j

\* C18 witness: the most regions are laid out, in a grid with cells to spare,
\* the last region at the last position used.
C18_Witness ==
  /\ rpc = "acquire" /\ chan_ax = -1
  /\ Len(axes) = MaxGraphs
  /\ axes[MaxGraphs].pos = MaxGraphs
  /\ axes[MaxGraphs].rows * axes[MaxGraphs].cols > MaxGraphs

\* The channels whose lock thread t holds.
HeldBy(l, t) == {i \in Channels : l[i] = t}

\* C19: the data thread holds locks[i] exactly between its acquire and its
\* release for channel i of the merge loop, and animate exactly while it plots
\* channel i, so each holds at most one lock; a held lock changes only by its
\* holder's release, which frees it before the thread's loop moves to another
\* channel; every lock is free when the data thread is outside the merge loop
\* and animate is not running; and the two threads never wait for locks held
\* by each other.
C19_LockDiscipline ==
  [][/\ \A i \in Channels :
          /\ locks'[i] = "data" <=> (dpc' \in DataCritical /\ di' = i)
          /\ locks'[i] = "main" <=> (rpc' \in {"plot", "release"} /\ ri' = i)
          /\ (locks[i] = "data" /\ locks'[i] # "data") =>
               dpc = "release" /\ di = i /\ locks'[i] = "free"
          /\ (locks[i] = "main" /\ locks'[i] # "main") =>
               rpc = "release" /\ ri = i /\ locks'[i] = "free"
     /\ Cardinality(HeldBy(locks', "data")) <= 1
     /\ Cardinality(HeldBy(locks', "main")) <= 1
     /\ di' # di => HeldBy(locks', "data") = {}
     /\ ri' # ri => HeldBy(locks', "main") = {}
     /\ (dpc' \notin MergeLoop /\ rpc' = "idle") =>
          \A i \in Channels : locks'[i] = "free"
     /\ ~(/\ dpc' \in {"acquire", "retry_sleep"} /\ locks'[di'] = "main"
          /\ rpc' \in {"acquire", "retry_sleep"} /\ locks'[ri'] = "data")]_vars

\* C19 witness: each thread holds one lock, the data thread appending to
\* channel 0 while animate plots channel 1.
C19_Witness ==
  /\ locks[0] = "data" /\ dpc = "cat_ys"
  /\ locks[1] = "main" /\ rpc = "plot"

====
